---- MODULE Spec2Model ----
(***************************************************************************)
(* colour-spectroscope: profile extraction (image_profile), wavelength     *)
(* calibration (calibrate_RGB_spectrum_profile) and luminance reduction    *)
(* (luminance_sd) of src/colour_spectroscope/fraunhofer/analysis.py.       *)
(*                                                                         *)
(* The functions are pure; each is an action that reads its arguments from *)
(* the state and writes its result (or the exception it ends with) back.   *)
(* Floating point numbers are modelled as exact rationals n/d extended     *)
(* with the IEEE-754 special values that numpy produces on a division by   *)
(* zero: +inf = 1/0, -inf = -1/0, nan = 0/0.  Rounding is not modelled.    *)
(***************************************************************************)
EXTENDS Integers, Sequences, FiniteSets, TLC

VARIABLES
    image,      \* image_profile argument: image[y][x][c], an H x W x 3 array
    line,       \* image_profile argument: <<x0, y0, x1, y1>>
    samples,    \* `samples` argument of the last call: <<>> is None, <<n>> is n
    profile,    \* image_profile result / calibrate argument
    reference,  \* calibrate argument: dict as a sequence of <<key, value>>
    measured,   \* calibrate argument: dict as a sequence of <<key, value>>
    spectrum,   \* calibrate result / luminance_sd argument
    sd,         \* luminance_sd result
    pc          \* which function returned last

vars == <<image, line, samples, profile, reference, measured, spectrum, sd, pc>>

----------------------------------------------------------------------------
(* Numbers.                                                                *)

Abs(n) == IF n < 0 THEN -n ELSE n

Sign(n) == IF n < 0 THEN -1 ELSE IF n > 0 THEN 1 ELSE 0

RECURSIVE Gcd(_, _)
Gcd(a, b) == IF b = 0 THEN a ELSE Gcd(b, a % b)

\* n/d in lowest terms with d >= 0; d = 0 is a non-finite value.
Norm(n, d) ==
    IF d = 0 THEN [n |-> Sign(n), d |-> 0]
    ELSE LET s == IF d < 0 THEN -1 ELSE 1
             g == Gcd(Abs(n), Abs(d))
         IN  [n |-> (s * n) \div g, d |-> (s * d) \div g]

Q(n) == [n |-> n, d |-> 1]

NaN == [n |-> 0, d |-> 0]

PosInf == [n |-> 1, d |-> 0]

NegInf == [n |-> -1, d |-> 0]

\* Python's None where a float is expected (dict.get of a missing key).
NoneVal == [n |-> 0, d |-> -1]

IsNaN(a) == a.d = 0 /\ a.n = 0

IsFinite(a) == a.d > 0

QNeg(a) == [n |-> -a.n, d |-> a.d]

QAdd(a, b) ==
    IF a.d = 0 /\ b.d = 0 THEN (IF a.n = b.n THEN a ELSE NaN)
    ELSE IF a.d = 0 THEN a
    ELSE IF b.d = 0 THEN b
    ELSE IF a.n = 0 THEN b
    ELSE IF b.n = 0 THEN a
    ELSE IF a.d = 1 /\ b.d = 1 THEN Q(a.n + b.n)
    ELSE LET g == Gcd(a.d, b.d)
         IN  Norm(a.n * (b.d \div g) + b.n * (a.d \div g), (a.d \div g) * b.d)

QSub(a, b) == QAdd(a, QNeg(b))

QMul(a, b) ==
    IF a.d = 0 \/ b.d = 0 THEN Norm(a.n * b.n, 0)
    ELSE IF a.n = 0 \/ b.n = 0 THEN Q(0)
    ELSE IF a.d = 1 /\ b.d = 1 THEN Q(a.n * b.n)
    ELSE LET g == Gcd(Abs(a.n), b.d)
             h == Gcd(Abs(b.n), a.d)
         IN  Norm((a.n \div g) * (b.n \div h), (a.d \div h) * (b.d \div g))

QDiv(a, b) ==
    LET s == IF b.n < 0 THEN -1 ELSE 1
    IN  IF a.d = 0 \/ b.d = 0 \/ b.n = 0 THEN Norm(s * a.n * b.d, s * a.d * b.n)
        ELSE QMul(a, [n |-> s * b.d, d |-> s * b.n])

\* IEEE comparisons: every comparison with nan is false.
QLt(a, b) ==
    /\ ~IsNaN(a)
    /\ ~IsNaN(b)
    /\ IF a.d = b.d THEN a.n < b.n
       ELSE LET g == Gcd(a.d, b.d)
            IN  a.n * (b.d \div g) < b.n * (a.d \div g)

QEq(a, b) == ~IsNaN(a) /\ ~IsNaN(b) /\ a = b

QLe(a, b) == QLt(a, b) \/ QEq(a, b)

\* floor of a finite value
QFloor(a) == a.n \div a.d

\* An array built by comprehension, as a sequence value.
Array(f) == f \o <<>>

\* Python truthiness of the optional `samples` argument: None and 0 are false.
Truthy(s) == s # <<>> /\ s[1] # 0

----------------------------------------------------------------------------
(* numpy                                                                   *)

\* The number of elements of a 1-D array.
Size(a) == Cardinality(DOMAIN a)

\* numpy.linspace(start, stop, num), endpoint=True, num >= 0, as the function
\* from index to element: an element is computed when it is read.
linspace_values(start, stop, num) ==
    LET div   == num - 1
        delta == QSub(stop, start)
        step  == QDiv(delta, Q(div))
        y(i)  == IF div > 0
                 THEN IF QEq(step, Q(0))
                      THEN QAdd(QMul(QDiv(Q(i), Q(div)), delta), start)
                      ELSE QAdd(QMul(Q(i), step), start)
                 ELSE QAdd(QMul(Q(i), delta), start)
    IN  [i \in 1..num |-> IF num > 1 /\ i = num THEN stop ELSE y(i - 1)]

\* numpy.linspace(start, stop, num) as an array.
linspace(start, stop, num) == Array(linspace_values(start, stop, num))

----------------------------------------------------------------------------
(* scipy.ndimage, as image_profile calls it: map_coordinates(input, coords) *)
(* with the defaults order=3, mode='constant', cval=0.0, prefilter=True.    *)

\* Cubic B-spline coefficients of the samples f (a sequence) for the mirror
\* boundary: the c with (c[i-1] + 4 c[i] + c[i+1]) / 6 = f[i], c mirrored at
\* both ends.  scipy obtains c with a recursive filter initialised exactly for
\* the mirror boundary; here the same tridiagonal system is solved by forward
\* elimination and back substitution.  An axis of length 1 is left unfiltered.
RECURSIVE spline_forward(_, _, _)
spline_forward(f, i, acc) ==
    IF i > Len(f) THEN acc
    ELSE LET lower == IF i = Len(f) THEN 2 ELSE 1
             den   == IF i = 1 THEN Q(4)
                      ELSE QSub(Q(4), QMul(Q(lower), acc[i - 1].cp))
             rhs   == IF i = 1 THEN QMul(Q(6), f[i])
                      ELSE QSub(QMul(Q(6), f[i]), QMul(Q(lower), acc[i - 1].dp))
             upper == IF i = 1 THEN 2 ELSE 1
         IN  spline_forward(f, i + 1,
                 Append(acc, [cp |-> QDiv(Q(upper), den), dp |-> QDiv(rhs, den)]))

RECURSIVE spline_backward(_, _, _)
spline_backward(fw, i, acc) ==
    IF i = 0 THEN acc
    ELSE LET c == IF i = Len(fw) THEN fw[i].dp
                  ELSE QSub(fw[i].dp, QMul(fw[i].cp, acc[1]))
         IN  spline_backward(fw, i - 1, <<c>> \o acc)

\* Mutant of spline_filter1d: no prefilter, the samples used as coefficients.
spline_filter1d_none(f) == f

spline_filter1d(f) ==
    IF Len(f) < 2 THEN f
    ELSE LET fw == spline_forward(f, 1, <<>>)
         IN  spline_backward(fw, Len(fw), <<>>)

\* spline_filter of a 2-D array a[i][j]: the 1-D filter along each axis.
spline_filter(a) ==
    LET rows == Array([i \in 1..Len(a) |-> spline_filter1d(a[i])])
        cols == Array([j \in 1..Len(a[1]) |->
                    spline_filter1d(Array([i \in 1..Len(a) |-> rows[i][j]]))])
    IN  Array([i \in 1..Len(a) |-> Array([j \in 1..Len(a[1]) |-> cols[j][i]])])

\* The four cubic B-spline weights at fractional offset t (taps floor-1..floor+2).
spline_weights(t) ==
    LET z  == QSub(Q(1), t)
        w1 == QDiv(QAdd(QMul(QMul(QMul(t, t), QSub(t, Q(2))), Q(3)), Q(4)), Q(6))
        w2 == QDiv(QAdd(QMul(QMul(QMul(z, z), QSub(z, Q(2))), Q(3)), Q(4)), Q(6))
        w0 == QDiv(QMul(QMul(z, z), z), Q(6))
    IN  <<w0, w1, w2, QSub(QSub(QSub(Q(1), w0), w1), w2)>>

\* A tap index outside 0..len-1 is mirrored back into the array.
mirror_index(idx, len) ==
    IF len <= 1 THEN 0
    ELSE LET s2 == 2 * len - 2
         IN  IF idx < 0
             THEN LET k == s2 * ((-idx) \div s2) + idx
                  IN  IF k <= 1 - len THEN k + s2 ELSE -k
             ELSE LET k == idx - s2 * (idx \div s2)
                  IN  IF k >= len THEN s2 - k ELSE k

Sum4(w, v) ==
    QAdd(QAdd(QMul(w[1], v[1]), QMul(w[2], v[2])),
         QAdd(QMul(w[3], v[3]), QMul(w[4], v[4])))

\* The spline with coefficients coef[i][j] (n0 x n1) evaluated at (c0, c1).
spline_value(coef, n0, n1, c0, c1) ==
    LET s0 == QFloor(c0) - 1
        s1 == QFloor(c1) - 1
        w0 == spline_weights(QSub(c0, Q(QFloor(c0))))
        w1 == spline_weights(QSub(c1, Q(QFloor(c1))))
        i0 == Array([k \in 1..4 |-> mirror_index(s0 + k - 1, n0) + 1])
        i1 == Array([k \in 1..4 |-> mirror_index(s1 + k - 1, n1) + 1])
        inner == Array([k \in 1..4 |->
                     Sum4(w1, Array([l \in 1..4 |-> coef[i0[k]][i1[l]]]))])
    IN  Sum4(w0, inner)

\* mode='constant': a coordinate outside [0, len-1] on any axis gives cval.
out_of_bounds(n0, n1, c0, c1) ==
    \/ QLt(c0, Q(0)) \/ QLt(Q(n0 - 1), c0)
    \/ QLt(c1, Q(0)) \/ QLt(Q(n1 - 1), c1)

cval == Q(0)

\* Mutant of map_coordinates: mode='nearest', coordinates clamped to the edge.
map_coordinates_nearest(input, x, y) ==
    LET n0   == Len(input)
        n1   == Len(input[1])
        coef == spline_filter(input)
        clamp(c, n) == IF QLt(c, Q(0)) THEN Q(0)
                       ELSE IF QLt(Q(n - 1), c) THEN Q(n - 1) ELSE c
    IN  Array([k \in 1..Len(x) |->
            spline_value(coef, n0, n1, clamp(x[k], n0), clamp(y[k], n1))])

map_coordinates(input, x, y) ==
    LET n0   == Len(input)
        n1   == Len(input[1])
        coef == spline_filter(input)
    IN  Array([k \in 1..Len(x) |->
            IF out_of_bounds(n0, n1, x[k], y[k]) THEN cval
            ELSE spline_value(coef, n0, n1, x[k], y[k])])

----------------------------------------------------------------------------
(* image_profile                                                           *)

transpose(z) ==
    Array([i \in 1..Len(z[1]) |-> Array([j \in 1..Len(z) |-> z[j][i]])])

\* numpy.dstack of 1-D arrays of equal length N: shape (1, N, len(arrays)).
dstack(arrays) ==
    << Array([i \in 1..Len(arrays[1]) |->
                 Array([c \in 1..Len(arrays) |-> arrays[c][i]])]) >>

\* ndarray.shape of a 3-D array held as nested sequences.
Shape(a) == <<Len(a), Len(a[1]), Len(a[1][1])>>

Raised(exception) == [status |-> exception, data |-> <<>>]

Returned(value) == [status |-> "ok", data |-> value]

NotCalled == [status |-> "none", data |-> <<>>]

\* Mutant of profile_samples: the default is the image height.
profile_samples_height(img, s) == IF Truthy(s) THEN s[1] ELSE Len(img)

\* Mutant of profile_samples: `samples if samples is not None else width`.
profile_samples_not_none(img, s) == IF s # <<>> THEN s[1] ELSE Len(img[1])

\* samples = samples if samples else width
profile_samples(img, s) == IF Truthy(s) THEN s[1] ELSE Len(img[1])

image_profile(img, ln, s) ==
    LET height   == Len(img)
        width    == Len(img[1])
        channels == Len(img[1][1])
        n        == profile_samples(img, s)
    IN  IF n < 0 THEN Raised("ValueError")   \* numpy.linspace refuses num < 0
        ELSE LET x == linspace(ln[1], ln[3], n)
                 y == linspace(ln[2], ln[4], n)
                 z(i) == Array([r \in 1..height |->
                             Array([c \in 1..width |-> img[r][c][i]])])
             IN  Returned(dstack(Array(
                     [i \in 1..channels |-> map_coordinates(transpose(z(i)), x, y)])))

----------------------------------------------------------------------------
(* Python dicts and builtins, as calibrate_RGB_spectrum_profile uses them. *)
(* A dict is the sequence of its <<key, value>> items in insertion order,  *)
(* the keys distinct.                                                      *)

dict_has(d, k) == \E i \in 1..Len(d) : d[i][1] = k

\* dict.get(k): the value, or None for a missing key.
dict_get(d, k) ==
    IF dict_has(d, k) THEN d[CHOOSE i \in 1..Len(d) : d[i][1] = k][2]
    ELSE NoneVal

\* sorted(items, key=lambda x: x[1]): stable, ties keep their order.
RECURSIVE sorted_by_value(_)
sorted_by_value(items) ==
    IF items = <<>> THEN <<>>
    ELSE LET front == sorted_by_value(SubSeq(items, 1, Len(items) - 1))
             it    == items[Len(items)]
             pos   == Cardinality({i \in 1..Len(front) : QLe(front[i][2], it[2])})
         IN  SubSeq(front, 1, pos) \o <<it>> \o SubSeq(front, pos + 1, Len(front))

\* The builtins min and max of a non-empty sequence of floats.
\* Mutant of py_min: the first element, whatever the others are.
py_min_first(s) == s[1]

RECURSIVE py_min(_)
py_min(s) ==
    IF Len(s) = 1 THEN s[1]
    ELSE LET best == py_min(SubSeq(s, 1, Len(s) - 1))
         IN  IF QLt(s[Len(s)], best) THEN s[Len(s)] ELSE best

\* Mutant of py_max: the first element, whatever the others are.
py_max_first(s) == s[1]

RECURSIVE py_max(_)
py_max(s) ==
    IF Len(s) = 1 THEN s[1]
    ELSE LET best == py_max(SubSeq(s, 1, Len(s) - 1))
         IN  IF QLt(best, s[Len(s)]) THEN s[Len(s)] ELSE best

----------------------------------------------------------------------------
(* colour.LinearInterpolator and colour.Extrapolator (method 'Linear').    *)

\* The search of numpy.interp: the first index i >= 2 with key < arr[i], or
\* Len(arr) + 1.  numpy scans like this for arrays of at most 4 elements and
\* bisects longer ones; on a sorted array the two agree.
RECURSIVE linear_search(_, _, _)
linear_search(key, arr, i) ==
    IF i <= Size(arr) /\ QLe(arr[i], key) THEN linear_search(key, arr, i + 1)
    ELSE i

\* numpy.interp(x, xp, fp) for one x; xp is not checked to be increasing.
np_interp(x, xp, fp) ==
    LET n == Size(xp)
    IN  IF IsNaN(x) THEN x
        ELSE IF QLt(xp[n], x) THEN fp[n]
        ELSE IF QLt(x, xp[1]) THEN fp[1]
        ELSE LET j == linear_search(x, xp, 2) - 1
             IN  IF j = n THEN fp[n]
                 ELSE IF QEq(xp[j], x) THEN fp[j]
                 ELSE LET slope == QDiv(QSub(fp[j + 1], fp[j]),
                                        QSub(xp[j + 1], xp[j]))
                      IN  QAdd(QMul(slope, QSub(x, xp[j])), fp[j])

\* Extrapolator(LinearInterpolator(xi, yi))(x) for one x, Len(xi) >= 2.  The
\* result array starts uninitialised (np.empty_like); it is written where
\* x < xi[0], then where x > xi[-1], then where xi[0] <= x <= xi[-1].  An x
\* that is none of these (nan) leaves the uninitialised value: `garbage`.
extrapolate(xi, yi, x, garbage) ==
    LET n == Size(xi)
    IN  IF QLe(xi[1], x) /\ QLe(x, xi[n]) THEN np_interp(x, xi, yi)
        ELSE IF QLt(xi[n], x)
        THEN QAdd(yi[n], QDiv(QMul(QSub(x, xi[n]), QSub(yi[n], yi[n - 1])),
                              QSub(xi[n], xi[n - 1])))
        ELSE IF QLt(x, xi[1])
        THEN QAdd(yi[1], QDiv(QMul(QSub(x, xi[1]), QSub(yi[2], yi[1])),
                              QSub(xi[2], xi[1])))
        ELSE garbage

----------------------------------------------------------------------------
(* calibrate_RGB_spectrum_profile                                          *)

\* The default `num` of numpy.linspace, used for the range arrays rr and mm.
LinspaceNum == 50

\* The items of a dict whose keys are floats, ordered as colour orders a
\* signal's domain: equal keys collapse to the last value given, the keys
\* ascending.  A domain holding a non-finite value is kept as zipped (colour
\* warns that the results are unpredictable).
RECURSIVE sorted_items(_, _, _)
sorted_items(keys, wl, val) ==
    IF keys = {} THEN <<>>
    ELSE LET k == CHOOSE a \in keys : \A b \in keys : QLe(a, b)
             i == CHOOSE a \in 1..Len(wl) :
                      wl[a] = k /\ \A b \in 1..Len(wl) : wl[b] = k => b <= a
         IN  <<[w |-> k, v |-> val[i]]>> \o sorted_items(keys \ {k}, wl, val)

RGB_Spectrum(wl, val) ==
    IF \/ \E i \in 1..Len(wl) : ~IsFinite(wl[i])
       \/ \A i \in 1..(Len(wl) - 1) : QLt(wl[i], wl[i + 1])
    THEN Array([i \in 1..Len(wl) |-> [w |-> wl[i], v |-> val[i]]])
    ELSE sorted_items({wl[i] : i \in 1..Len(wl)}, wl, val)

\* Mutant of measured_lines: the keys in insertion order, not sorted.
measured_lines_unsorted(meas) == Array([i \in 1..Len(meas) |-> meas[i][1]])

\* Lines 147-154: the keys of `measured` by measured value, and the reference
\* and measured samples of those keys.
measured_lines(meas) ==
    LET items == sorted_by_value(meas)
    IN  Array([i \in 1..Len(items) |-> items[i][1]])

reference_samples(ref, meas) ==
    LET lines == measured_lines(meas)
    IN  Array([i \in 1..Len(lines) |-> dict_get(ref, lines[i])])

measured_samples(ref, meas) ==
    LET lines == measured_lines(meas)
    IN  Array([i \in 1..Len(lines) |-> dict_get(meas, lines[i])])

\* Lines 156-159: the range arrays rr and mm, from the smallest to the
\* largest sample.
range_array(v) == linspace_values(py_min(v), py_max(v), LinspaceNum)

\* Line 165: mm_to_rr_interpolator, the remap from pixel to wavelength.
mm_to_rr_interpolator(mm, rr, x, garbage) == extrapolate(mm, rr, x, garbage)

\* Line 162: r_to_m_interpolator, from wavelength to pixel.
r_to_m_interpolator(r, m, x, garbage) == extrapolate(r, m, x, garbage)

\* Mutant of wavelength_axis: the axis ends at the last pixel, width - 1.
wavelength_axis_to_last_pixel(mm, rr, width, n, garbage) ==
    linspace(mm_to_rr_interpolator(mm, rr, Q(0), garbage),
             mm_to_rr_interpolator(mm, rr, Q(width - 1), garbage), n)

\* Lines 175-177: the output wavelength axis.  The two ends are one-element
\* arrays; linspace broadcasts them into the 1-D array of `n` samples (numpy
\* before 1.16, which the dict of line 179 needs for its keys to be floats).
wavelength_axis(mm, rr, width, n, garbage) ==
    linspace(mm_to_rr_interpolator(mm, rr, Q(0), garbage),
             mm_to_rr_interpolator(mm, rr, Q(width), garbage), n)

\* Mutant of channel_interpolators: the pixel domain counted from 1.
channel_interpolators_from_one(prof) ==
    LET width == Len(prof[1])
    IN  [x |-> Array([i \in 1..width |-> Q(i)]),
         y |-> Array([c \in 1..3 |-> Array([i \in 1..width |-> prof[1][i][c]])])]

\* Lines 168-173: the pixel domain np.arange(0, width) and the three channel
\* ranges of the R, G and B interpolators.
channel_interpolators(prof) ==
    LET width == Len(prof[1])
    IN  [x |-> Array([i \in 1..width |-> Q(i - 1)]),
         y |-> Array([c \in 1..3 |-> Array([i \in 1..width |-> prof[1][i][c]])])]

\* Mutant of channel_values: 0 outside the pixels of the profile.
channel_values_zero_outside(interpolators, x, garbage) ==
    Array([c \in 1..3 |->
        IF QLe(interpolators.x[1], x) /\ QLe(x, interpolators.x[Len(interpolators.x)])
        THEN np_interp(x, interpolators.x, interpolators.y[c])
        ELSE Q(0)])

\* Lines 183-185: the three channel interpolators at one pixel position.
channel_values(interpolators, x, garbage) ==
    Array([c \in 1..3 |->
        extrapolate(interpolators.x, interpolators.y[c], x, garbage)])

calibrate_RGB_spectrum_profile(prof, ref, meas, s, garbage) ==
    LET width == Len(prof[1])
        n     == IF Truthy(s) THEN s[1] ELSE width
        r     == reference_samples(ref, meas)
        m     == measured_samples(ref, meas)
    IN  IF Len(r) = 0 THEN Raised("ValueError")        \* min() of an empty array
        ELSE IF \E i \in 1..Len(r) : r[i] = NoneVal
        THEN Raised("TypeError")                       \* min() or linspace of None
        ELSE IF n < 0 THEN Raised("ValueError")        \* linspace refuses num < 0
        ELSE IF Len(r) < 2 \/ width < 2
        THEN Raised("IndexError")                      \* Extrapolator reads yi[1]
        ELSE LET rr == range_array(r)
                 mm == range_array(m)
                 wavelengths == wavelength_axis(mm, rr, width, n, garbage)
                 interpolators == channel_interpolators(prof)
                 values == Array([i \in 1..n |->
                               channel_values(interpolators,
                                   r_to_m_interpolator(r, m, wavelengths[i], garbage),
                                   garbage)])
             IN  Returned(RGB_Spectrum(wavelengths, values))

----------------------------------------------------------------------------
(* Inputs of image_profile.                                                *)

MaxHeight == 2

MaxWidth == 3

MaxSamples == 3

Half == Norm(1, 2)

Black == <<Q(0), Q(0), Q(0)>>

\* One colour with three different channel values.
Lit == <<Q(1), Half, Norm(1, 4)>>

UniformImage(h, w, colour) ==
    Array([y \in 1..h |-> Array([x \in 1..w |-> colour])])

\* Black but for the pixel in row py, column px.
ImpulseImage(h, w, py, px) ==
    Array([y \in 1..h |->
        Array([x \in 1..w |-> IF y = py /\ x = px THEN Lit ELSE Black])])

\* The impulse images span the images of each size, and image_profile is
\* linear in the image.
Images ==
    UNION { { UniformImage(h, w, Lit) }
            \cup { ImpulseImage(h, w, py, px) : py \in 1..h, px \in 1..w } :
            h \in 1..MaxHeight, w \in 1..MaxWidth }

\* Line endpoints <<x, y>>: pixel centres, points between pixels, and points
\* off the image (x = -1 always, the others depending on the image size).
Points ==
    { <<Q(-1), Q(0)>>, <<Q(0), Q(0)>>, <<Half, Q(0)>>, <<Q(2), Q(0)>>,
      <<Half, Half>>, <<Q(1), Q(1)>> }

Lines == { <<p0[1], p0[2], p1[1], p1[2]>> : p0 \in Points, p1 \in Points }

\* None, a negative count, 0 and the positive counts.
SampleArgs == {<<>>} \cup { <<n>> : n \in -1..MaxSamples }

----------------------------------------------------------------------------
(* Specification of the profile sampler: one call of image_profile.        *)

Init ==
    /\ image \in Images
    /\ line = <<>>
    /\ samples = <<>>
    /\ profile = NotCalled
    /\ reference = <<>>
    /\ measured = <<>>
    /\ spectrum = NotCalled
    /\ sd = NotCalled
    /\ pc = "start"

ImageProfile ==
    /\ pc = "start"
    /\ \E ln \in Lines, s \in SampleArgs :
           /\ line' = ln
           /\ samples' = s
           /\ profile' = image_profile(image, ln, s)
    /\ pc' = "image_profile"
    /\ UNCHANGED <<image, reference, measured, spectrum, sd>>

Next == ImageProfile

Spec == Init /\ [][Next]_vars

----------------------------------------------------------------------------
(* Claims about image_profile (sample_profile in the specification).       *)

Called == pc = "image_profile"

Width == Len(image[1])

Height == Len(image)

\* The point <<x, y>> lies inside the image bounds.
InBounds(x, y) == ~out_of_bounds(Width, Height, x, y)

IsInteger(a) == a.d = 1

\* The k-th sample point of the call, as image_profile lays the points out.
SampleX(k) == linspace(line[1], line[3], Len(profile.data[1]))[k]

SampleY(k) == linspace(line[2], line[4], Len(profile.data[1]))[k]

\* Bilinear interpolation of channel c of the image at an in-bounds point,
\* the neighbours clamped to the image.
Bilinear(c, x, y) ==
    LET x0 == QFloor(x)
        y0 == QFloor(y)
        x1 == IF x0 + 1 > Width - 1 THEN Width - 1 ELSE x0 + 1
        y1 == IF y0 + 1 > Height - 1 THEN Height - 1 ELSE y0 + 1
        fx == QSub(x, Q(x0))
        fy == QSub(y, Q(y0))
        top == QAdd(QMul(QSub(Q(1), fx), image[y0 + 1][x0 + 1][c]),
                    QMul(fx, image[y0 + 1][x1 + 1][c]))
        bot == QAdd(QMul(QSub(Q(1), fx), image[y1 + 1][x0 + 1][c]),
                    QMul(fx, image[y1 + 1][x1 + 1][c]))
    IN  QAdd(QMul(QSub(Q(1), fy), top), QMul(fy, bot))

\* C1: for every image (height >= 1, width >= 1, 3 channels) and every line,
\* image_profile returns an array of shape (1, N, 3), N being the requested
\* `samples` when a positive count is given and the image width when `samples`
\* is not given.
C1_ProfileShape ==
    (Called /\ (samples = <<>> \/ samples[1] > 0)) =>
        /\ profile.status = "ok"
        /\ Len(profile.data) = 1
        /\ Len(profile.data[1]) = (IF samples = <<>> THEN Width ELSE samples[1])
        /\ \A k \in 1..Len(profile.data[1]) : Len(profile.data[1][k]) = 3

\* C1 witness: a 2-sample profile of a 3-wide image, and a default-count
\* profile of an image whose width differs from its height.
C1_Witness ==
    /\ Called
    /\ Width = 3 /\ Height = 2
    /\ samples = <<>>
    /\ profile.status = "ok"
    /\ Shape(profile.data) = <<1, 3, 3>>

\* C2 as stated: for every segment fully inside the image and samples >= 2,
\* the first and the last sample are the bilinear interpolations of the image
\* at (x0, y0) and (x1, y1).
C2_Original ==
    (/\ Called
     /\ samples # <<>> /\ samples[1] >= 2
     /\ InBounds(line[1], line[2]) /\ InBounds(line[3], line[4])) =>
        \A c \in 1..3 :
            /\ profile.data[1][1][c] = Bilinear(c, line[1], line[2])
            /\ profile.data[1][samples[1]][c] = Bilinear(c, line[3], line[4])

\* C2 amended: for every segment fully inside the image with integer endpoint
\* coordinates and samples >= 2, the first sample is the pixel image[y0, x0]
\* and the last sample is the pixel image[y1, x1], channel by channel (the
\* interpolation is an order-3 spline, exact at the pixel centres only).
C2_EndpointsArePixels ==
    (/\ Called
     /\ samples # <<>> /\ samples[1] >= 2
     /\ InBounds(line[1], line[2]) /\ InBounds(line[3], line[4])
     /\ \A i \in 1..4 : IsInteger(line[i])) =>
        /\ profile.status = "ok"
        /\ \A c \in 1..3 :
            /\ profile.data[1][1][c] =
                   image[QFloor(line[2]) + 1][QFloor(line[1]) + 1][c]
            /\ profile.data[1][samples[1]][c] =
                   image[QFloor(line[4]) + 1][QFloor(line[3]) + 1][c]

\* C2 witness: a profile from the lit pixel (0, 0) to the black pixel (1, 1).
C2_Witness ==
    /\ Called
    /\ samples = <<3>>
    /\ line = <<Q(0), Q(0), Q(1), Q(1)>>
    /\ Height = 2 /\ Width = 3
    /\ profile.status = "ok"
    /\ profile.data[1][1] = Lit
    /\ profile.data[1][3] = Black

\* The sampler's own value of channel c at the in-bounds point nearest to (x, y).
EdgeClamped(c, x, y) ==
    LET clamp(v, n) == IF QLt(v, Q(0)) THEN Q(0)
                       ELSE IF QLt(Q(n - 1), v) THEN Q(n - 1) ELSE v
        z == Array([i \in 1..Width |-> Array([j \in 1..Height |-> image[j][i][c]])])
    IN  map_coordinates(z, <<clamp(x, Width)>>, <<clamp(y, Height)>>)[1]

\* C3 as stated: image_profile does not raise for a segment partly or wholly
\* outside the image, and each sample taken at an out-of-bounds coordinate is
\* the image value at the nearest valid (edge-clamped) coordinate.
C3_Original ==
    (Called /\ (samples = <<>> \/ samples[1] > 0)) =>
        /\ profile.status = "ok"
        /\ \A k \in 1..Len(profile.data[1]) :
               ~InBounds(SampleX(k), SampleY(k)) =>
                   \A c \in 1..3 :
                       profile.data[1][k][c] = EdgeClamped(c, SampleX(k), SampleY(k))

\* C3 amended: image_profile does not raise for a segment partly or wholly
\* outside the image, and each sample taken at an out-of-bounds coordinate is
\* the fill value 0.0 in every channel.
C3_OutOfBoundsIsZero ==
    (Called /\ (samples = <<>> \/ samples[1] > 0)) =>
        /\ profile.status = "ok"
        /\ \A k \in 1..Len(profile.data[1]) :
               ~InBounds(SampleX(k), SampleY(k)) =>
                   \A c \in 1..3 : profile.data[1][k][c] = Q(0)

\* C3 witness: a segment that starts left of a uniformly lit image and ends
\* inside it; the first sample is black, the last is lit.
C3_Witness ==
    /\ Called
    /\ image = UniformImage(1, 3, Lit)
    /\ line = <<Q(-1), Q(0), Q(2), Q(0)>>
    /\ samples = <<2>>
    /\ profile.status = "ok"
    /\ profile.data[1][1] = Black
    /\ profile.data[1][2] = Lit

\* C4 as stated: image_profile fails with InvalidInputError, and returns no
\* profile, when the two endpoints coincide or `samples` is given and <= 0
\* (the zero-sized image is outside the model).
C4_Original ==
    (/\ Called
     /\ \/ (line[1] = line[3] /\ line[2] = line[4])
        \/ (samples # <<>> /\ samples[1] <= 0)) =>
        profile.status = "InvalidInputError"

\* C4 amended: image_profile validates nothing and never fails with
\* InvalidInputError.  With coinciding endpoints it returns a profile whose
\* samples are all the sample at that point; samples = 0 is treated as not
\* given and yields a profile of image-width samples; only a negative
\* `samples` fails, with numpy's ValueError, and returns no profile.
C4_NoValidation ==
    Called =>
        /\ profile.status \in {"ok", "ValueError"}
        /\ profile.status = "ValueError" <=> (samples # <<>> /\ samples[1] < 0)
        /\ profile.status = "ValueError" => profile.data = <<>>
        /\ samples = <<0>> =>
               /\ Len(profile.data) = 1
               /\ Len(profile.data[1]) = Width
        /\ (profile.status = "ok" /\ line[1] = line[3] /\ line[2] = line[4]) =>
               \A k \in 1..Len(profile.data[1]) :
                   profile.data[1][k] = profile.data[1][1]

\* C4 witness: a degenerate segment on a lit pixel, sampled three times.
C4_Witness ==
    /\ Called
    /\ line = <<Q(0), Q(0), Q(0), Q(0)>>
    /\ samples = <<3>>
    /\ profile.status = "ok"
    /\ profile.data[1] = <<Lit, Lit, Lit>>

----------------------------------------------------------------------------
(* Inputs of calibrate_RGB_spectrum_profile.  The profiles are 1 x W x 3   *)
(* arrays as image_profile returns them; the dicts are keyed by line       *)
(* labels, `measured` holding pixel positions and `reference` wavelengths. *)

Keys == <<"A", "B", "C">>

Positions == 0..(MaxWidth - 1)

Wavelengths == {Q(500), Q(600), Q(700)}

FlatProfile(w, c) == << Array([i \in 1..w |-> <<c, c, c>>]) >>

GradedProfile(w) ==
    << Array([i \in 1..w |-> <<Norm((i - 1) * (i - 1), 4), Norm(i - 1, 2), Q(1)>>]) >>

Profiles ==
    { FlatProfile(w, Half) : w \in 1..MaxWidth }
    \cup { GradedProfile(MaxWidth - 1), GradedProfile(MaxWidth) }

\* The items of the keys that have a value, in the order of Keys.
RECURSIVE items_of(_, _)
items_of(f, i) ==
    IF i > Len(Keys) THEN <<>>
    ELSE (IF f[i] = NoneVal THEN <<>> ELSE << <<Keys[i], f[i]>> >>)
         \o items_of(f, i + 1)

\* Every dict of fewer keys than Keys at any positions, and every dict of all
\* the keys at distinct positions.
Measureds ==
    { Array([i \in 1..k |-> <<Keys[i], Q(f[i])>>]) :
          f \in [1..Len(Keys) -> Positions], k \in 0..(Len(Keys) - 1) }
    \cup { Array([i \in 1..Len(Keys) |-> <<Keys[i], Q(f[i])>>]) :
               f \in { h \in [1..Len(Keys) -> Positions] :
                          \A i, j \in 1..Len(Keys) : i # j => h[i] # h[j] } }

\* The tables that give the keys distinct wavelengths, the tables that give
\* them all the same wavelength, and every part of the table A: 500, B: 600,
\* C: 700.
PublishedTable == <<Q(500), Q(600), Q(700)>>

References ==
    { items_of(f, 1) :
          f \in { h \in [1..Len(Keys) -> Wavelengths] :
                     \/ \A i, j \in 1..Len(Keys) : i # j => h[i] # h[j]
                     \/ \A i, j \in 1..Len(Keys) : h[i] = h[j] } }
    \cup { items_of([i \in 1..Len(Keys) |-> IF i \in S THEN PublishedTable[i] ELSE NoneVal], 1) :
               S \in SUBSET (1..Len(Keys)) }

\* The calibration of the specification's example: a 200 pixel wide profile
\* and two lines whose wavelengths decrease with the pixel position.
ExampleProfile == FlatProfile(200, Half)
ExampleReference == << <<"A", Q(600)>>, <<"B", Q(500)>> >>
ExampleMeasured == << <<"A", Q(100)>>, <<"B", Q(10)>> >>

\* What an uninitialised float may hold.
Garbage == {Q(0), NaN}

\* Whether the remap divides by zero, which is when the result reads
\* uninitialised values.
degenerate(meas) ==
    \A i, j \in 1..Len(meas) : meas[i][2] = meas[j][2]

----------------------------------------------------------------------------
(* The specification of the calibrator: one call of                        *)
(* calibrate_RGB_spectrum_profile on a profile and two dicts.              *)

InitCalibrate ==
    /\ \/ /\ profile \in { Returned(p) : p \in Profiles }
          /\ reference \in References
          /\ measured \in Measureds
       \/ /\ profile = Returned(ExampleProfile)
          /\ reference = ExampleReference
          /\ measured = ExampleMeasured
    /\ image = <<>>
    /\ line = <<>>
    /\ samples = <<>>
    /\ spectrum = NotCalled
    /\ sd = NotCalled
    /\ pc = "start"

Calibrate ==
    /\ pc = "start"
    /\ \E s \in SampleArgs, g \in Garbage :
           /\ g = Q(0) \/ degenerate(measured)
           /\ samples' = s
           /\ spectrum' = calibrate_RGB_spectrum_profile(profile.data, reference,
                                                         measured, s, g)
    /\ pc' = "calibrated"
    /\ UNCHANGED <<image, line, profile, reference, measured, sd>>

NextCalibrate == Calibrate

SpecCalibrate == InitCalibrate /\ [][NextCalibrate]_vars

----------------------------------------------------------------------------
(* Claims about calibrate_RGB_spectrum_profile (calibrate in the           *)
(* specification).                                                         *)

Calibrated == pc = "calibrated"

ProfileWidth == Len(profile.data[1])

\* The number of output samples asked for.
EffectiveSamples == IF Truthy(samples) THEN samples[1] ELSE ProfileWidth

KeysOf(d) == { d[i][1] : i \in 1..Len(d) }

SharedKeys == KeysOf(reference) \cap KeysOf(measured)

\* A dict restricted to a set of keys, the order of its items kept.
RECURSIVE restrict(_, _)
restrict(d, ks) ==
    IF d = <<>> THEN <<>>
    ELSE (IF d[1][1] \in ks THEN <<d[1]>> ELSE <<>>) \o restrict(Tail(d), ks)

DistinctOn(d, ks) ==
    \A a, b \in ks : a # b => dict_get(d, a) # dict_get(d, b)

\* Valid calibration data in the sense of the specification.
ValidShared ==
    /\ Cardinality(SharedKeys) >= 2
    /\ DistinctOn(measured, SharedKeys)
    /\ DistinctOn(reference, SharedKeys)

AxisOf(sp) == Array([i \in 1..Len(sp.data) |-> sp.data[i].w])

StrictlyIncreasing(a) ==
    /\ \A i \in 1..Len(a) : IsFinite(a[i])
    /\ \A i \in 1..(Len(a) - 1) : QLt(a[i], a[i + 1])

\* C5 (as the specification states it, any error accepted in place of the
\* InsufficientCalibrationDataError that the code does not define): with fewer
\* than 2 shared keys, or two shared keys at the same measured position, or two
\* shared keys of the same reference wavelength, calibrate fails and returns no
\* spectrum.
C5_Original ==
    (Calibrated /\ ~ValidShared) => spectrum.status # "ok"

\* C6 (as the specification states it): only the shared keys take part, so the
\* result is the one obtained from the two dicts restricted to their shared keys.
C6_Original ==
    Calibrated =>
        \E g \in Garbage :
            spectrum = calibrate_RGB_spectrum_profile(profile.data,
                           restrict(reference, SharedKeys),
                           restrict(measured, SharedKeys), samples, g)

\* C6 (amended): calibrate iterates over the keys of `measured`.  A key of
\* `reference` that `measured` lacks changes nothing; a key of `measured` that
\* `reference` lacks makes the call fail with TypeError; the keys are taken in
\* ascending order of measured position and the reference and measured arrays
\* hold the values of those keys index by index.
C6_MeasuredKeysDrive ==
    Calibrated =>
        LET lines == measured_lines(measured)
            r     == reference_samples(reference, measured)
            m     == measured_samples(reference, measured)
        IN  /\ Len(lines) = Len(measured)
            /\ KeysOf(measured) = { lines[i] : i \in 1..Len(lines) }
            /\ \A i \in 1..(Len(lines) - 1) :
                   QLe(dict_get(measured, lines[i]), dict_get(measured, lines[i + 1]))
            /\ Len(r) = Len(lines) /\ Len(m) = Len(lines)
            /\ \A i \in 1..Len(lines) :
                   /\ r[i] = dict_get(reference, lines[i])
                   /\ m[i] = dict_get(measured, lines[i])
            /\ (KeysOf(measured) \ KeysOf(reference) # {}) => spectrum.status = "TypeError"
            /\ (KeysOf(measured) \subseteq KeysOf(reference)
                    /\ KeysOf(reference) \ KeysOf(measured) # {}) =>
                   \E g \in Garbage :
                       spectrum = calibrate_RGB_spectrum_profile(profile.data,
                                      restrict(reference, KeysOf(measured)),
                                      measured, samples, g)

\* A spectrum returned for two lines given out of position order and a
\* reference that holds a line that was not measured.
C6_Witness ==
    /\ Calibrated
    /\ spectrum.status = "ok"
    /\ KeysOf(reference) \ KeysOf(measured) # {}
    /\ Len(measured) = 2
    /\ QLt(measured[2][2], measured[1][2])

\* Valid input as the code needs it: valid shared keys, every measured key in
\* the reference, and a profile at least 2 pixels wide.
ValidInput ==
    /\ ValidShared
    /\ KeysOf(measured) \subseteq KeysOf(reference)
    /\ ProfileWidth >= 2

\* C7 (as the specification states it): for at least 2 valid shared keys, a
\* profile width >= 1 and samples >= 2, calibrate returns a spectrum whose
\* wavelength axis is strictly increasing.
C7_Original ==
    (Calibrated /\ ValidShared /\ ProfileWidth >= 1 /\ EffectiveSamples >= 2) =>
        /\ spectrum.status = "ok"
        /\ StrictlyIncreasing(AxisOf(spectrum))

\* C7 (amended): when moreover every key of `measured` is in `reference` and
\* the profile is at least 2 pixels wide, calibrate returns a spectrum of
\* exactly `samples` entries whose wavelengths are finite and strictly
\* increasing, whatever the order of the reference wavelengths relative to the
\* measured positions.
C7_AxisStrictlyIncreasing ==
    (Calibrated /\ ValidInput /\ EffectiveSamples >= 2) =>
        /\ spectrum.status = "ok"
        /\ Len(spectrum.data) = EffectiveSamples
        /\ StrictlyIncreasing(AxisOf(spectrum))

\* Three lines whose reference wavelengths go up and then down with the
\* measured position.
C7_Witness ==
    /\ Calibrated /\ ValidInput /\ EffectiveSamples >= 2
    /\ spectrum.status = "ok"
    /\ Len(measured) = 3
    /\ LET r == reference_samples(reference, measured)
       IN  QLt(r[1], r[2]) /\ QLt(r[3], r[2])

\* Exactly two calibration key pairs, valid.
TwoKeys ==
    /\ Len(measured) = 2
    /\ KeysOf(measured) \subseteq KeysOf(reference)
    /\ ValidShared

\* The remap from pixel to wavelength of the current calibration data.
Remap(x) ==
    LET r == reference_samples(reference, measured)
        m == measured_samples(reference, measured)
    IN  mm_to_rr_interpolator(range_array(m), range_array(r), x, NaN)

\* C8 (as the specification states it): for exactly 2 valid key pairs the
\* remap sends each key's measured position to that key's reference
\* wavelength, also when the smaller position has the larger wavelength.
C8_Original ==
    (Calibrated /\ TwoKeys) =>
        \A i \in 1..2 :
            Remap(measured[i][2]) = dict_get(reference, measured[i][1])

\* C8 (amended): for exactly 2 valid key pairs the remap is the increasing
\* affine map that sends the smaller measured position to the smaller
\* reference wavelength and the larger position to the larger wavelength.  It
\* sends each key's position to that key's wavelength when the key with the
\* smaller position has the smaller wavelength, and to the other key's
\* wavelength when it has the larger one.  The axis of a returned spectrum of
\* 2 or more samples runs from the remap of 0 to the remap of the width.
C8_RemapFromMinMax ==
    (Calibrated /\ TwoKeys) =>
        LET r  == reference_samples(reference, measured)
            m  == measured_samples(reference, measured)
            lo == IF QLt(r[1], r[2]) THEN r[1] ELSE r[2]
            hi == IF QLt(r[1], r[2]) THEN r[2] ELSE r[1]
            affine(x) == QAdd(lo, QDiv(QMul(QSub(x, m[1]), QSub(hi, lo)),
                                       QSub(m[2], m[1])))
        IN  /\ QLt(m[1], m[2])
            /\ Remap(m[1]) = lo /\ Remap(m[2]) = hi
            /\ \A x \in {0, ProfileWidth} : Remap(Q(x)) = affine(Q(x))
            /\ QLt(r[1], r[2]) => (Remap(m[1]) = r[1] /\ Remap(m[2]) = r[2])
            /\ QLt(r[2], r[1]) => (Remap(m[1]) = r[2] /\ Remap(m[2]) = r[1])
            /\ (spectrum.status = "ok" /\ EffectiveSamples >= 2) =>
                   /\ Len(spectrum.data) = EffectiveSamples
                   /\ spectrum.data[1].w = affine(Q(0))
                   /\ spectrum.data[Len(spectrum.data)].w = affine(Q(ProfileWidth))

\* Two lines, the one at the smaller position having the larger wavelength.
C8_Witness ==
    /\ Calibrated /\ TwoKeys
    /\ spectrum.status = "ok"
    /\ EffectiveSamples >= 2
    /\ LET r == reference_samples(reference, measured)
       IN  QLt(r[2], r[1])

\* Whether every channel of every pixel of the profile is c.
IsFlat(c) ==
    \A i \in 1..ProfileWidth : \A ch \in 1..3 : profile.data[1][i][ch] = c

IsExample ==
    /\ profile = Returned(ExampleProfile)
    /\ reference = ExampleReference
    /\ measured = ExampleMeasured

\* C9: for a profile whose channels are the same constant c at every pixel and
\* valid calibration data, every channel value of every entry of the returned
\* spectrum is c; for the example (A: 600 at pixel 100, B: 500 at pixel 10,
\* width 200, c = 1/2) the axis runs from 4400/9, the line through 10 -> 500
\* and 100 -> 600 at pixel 0 and below 500, to 6400/9, the line at pixel 200
\* and above 600.
C9_ConstantProfile ==
    (Calibrated /\ ValidInput /\ spectrum.status = "ok") =>
        /\ LET c == profile.data[1][1][1]
           IN  IsFlat(c) =>
                   \A i \in 1..Len(spectrum.data) : \A ch \in 1..3 :
                       spectrum.data[i].v[ch] = c
        /\ (IsExample /\ EffectiveSamples >= 2) =>
               LET first == spectrum.data[1].w
                   last  == spectrum.data[Len(spectrum.data)].w
               IN  /\ first = Norm(4400, 9) /\ QLt(first, Q(500))
                   /\ last = Norm(6400, 9) /\ QLt(Q(600), last)

\* The example calibrated at its own resolution.
C9_Witness ==
    /\ Calibrated /\ IsExample
    /\ samples = <<>>
    /\ spectrum.status = "ok"
    /\ Len(spectrum.data) = ProfileWidth
    /\ IsFlat(Half)

----------------------------------------------------------------------------
(* luminance_sd                                                            *)

\* The luminance row of the sRGB normalised primary matrix, to 4 decimals.
LuminanceWeights == <<Norm(2126, 10000), Norm(7152, 10000), Norm(722, 10000)>>

\* colour.RGB_luminance of one RGB triple with the sRGB primaries and whitepoint.
RGB_luminance(RGB) ==
    QAdd(QAdd(QMul(LuminanceWeights[1], RGB[1]), QMul(LuminanceWeights[2], RGB[2])),
         QMul(LuminanceWeights[3], RGB[3]))

\* np.ravel of the values of a spectrum.
ravel(data) ==
    Array([k \in 1..(3 * Len(data)) |-> data[((k - 1) \div 3) + 1].v[((k - 1) % 3) + 1]])

\* spectrum.copy().normalise(factor): self *= 1 / max(np.ravel(self.values)) * factor,
\* applied to the copy.
normalise(data, factor) ==
    LET scale == QMul(QDiv(Q(1), py_max(ravel(data))), factor)
    IN  Array([i \in 1..Len(data) |->
            [w |-> data[i].w,
             v |-> Array([ch \in 1..3 |-> QMul(data[i].v[ch], scale)])]])

\* SpectralDistribution(dict(zip(wavelengths, values))): the same signal
\* container as RGB_Spectrum, its values scalars.
SpectralDistribution(wl, val) == RGB_Spectrum(wl, val)

\* Mutant of spectrum_after_call: the normalisation applied to the argument.
spectrum_normalised_in_place(data) == normalise(data, Q(100))

\* Line 241: what the caller's spectrum holds after the call.  copy() is a
\* deep copy and normalise works in place on that copy, which is then bound to
\* the local name; the argument keeps its wavelengths and values.
spectrum_after_call(data) == data

luminance_sd(data) ==
    LET normalised == normalise(data, Q(100))
    IN  Returned(SpectralDistribution(
            Array([i \in 1..Len(normalised) |-> normalised[i].w]),
            Array([i \in 1..Len(normalised) |-> RGB_luminance(normalised[i].v)])))

----------------------------------------------------------------------------
(* The specification of the luminance reduction: luminance_sd called on a  *)
(* spectrum that calibrate_RGB_spectrum_profile returned for valid input.  *)

LuminanceProfiles ==
    { FlatProfile(MaxWidth, Q(0)), FlatProfile(MaxWidth, Half), GradedProfile(MaxWidth) }

InitLuminance ==
    /\ profile \in { Returned(p) : p \in LuminanceProfiles }
    /\ reference \in References
    /\ measured \in Measureds
    /\ samples \in SampleArgs
    /\ ValidInput
    /\ EffectiveSamples >= 1
    /\ spectrum = calibrate_RGB_spectrum_profile(profile.data, reference, measured,
                                                 samples, NaN)
    /\ image = <<>>
    /\ line = <<>>
    /\ sd = NotCalled
    /\ pc = "calibrated"

\* One call of luminance_sd on the spectrum; it may be called a second time.
LuminanceSd ==
    /\ pc \in {"calibrated", "luminance"}
    /\ spectrum.status = "ok"
    /\ sd' = luminance_sd(spectrum.data)
    /\ spectrum' = [spectrum EXCEPT !.data = spectrum_after_call(spectrum.data)]
    /\ pc' = IF pc = "calibrated" THEN "luminance" ELSE "luminance_twice"
    /\ UNCHANGED <<image, line, samples, profile, reference, measured>>

NextLuminance == LuminanceSd

SpecLuminance == InitLuminance /\ [][NextLuminance]_vars

----------------------------------------------------------------------------
(* Claims about luminance_sd (luminance in the specification).             *)

\* C10 (as the specification states it): for every calibrated spectrum,
\* luminance returns a distribution with the wavelength axis of the input
\* (same length, values and order) and whose maximum value is <= 100.
C10_Original ==
    pc = "luminance" =>
        /\ sd.status = "ok"
        /\ AxisOf(sd) = AxisOf(spectrum)
        /\ \A i \in 1..Len(sd.data) : QLe(sd.data[i].v, Q(100))

----------------------------------------------------------------------------
----------------------------------------------------------------------------
(* Claims about the resolution of calibrate_RGB_spectrum_profile and about *)
(* the values it reads from the profile.                                   *)

\* The pixel positions 0..W-1 of the profile and one of its channels.
PixelDomain == Array([i \in 1..ProfileWidth |-> Q(i - 1)])

ProfileChannel(ch) == Array([i \in 1..ProfileWidth |-> profile.data[1][i][ch]])

\* C11: for valid calibration data and samples >= 1, equal to the profile
\* width W or not, the returned spectrum has exactly `samples` entries (W when
\* samples is not given), evenly spaced from the remap at pixel 0 to the remap
\* at pixel W, and each entry holds the three channel interpolants, whose
\* domain stays the pixels 0..W-1 of the profile, at the pixel position of its
\* wavelength.
C11_SamplesSetTheAxis ==
    (Calibrated /\ ValidInput /\ EffectiveSamples >= 1) =>
        LET n     == EffectiveSamples
            first == Remap(Q(0))
            last  == Remap(Q(ProfileWidth))
            r     == reference_samples(reference, measured)
            m     == measured_samples(reference, measured)
        IN  /\ spectrum.status = "ok"
            /\ Len(spectrum.data) = n
            /\ samples = <<>> => Len(spectrum.data) = ProfileWidth
            /\ spectrum.data[1].w = first
            /\ n >= 2 =>
                   /\ spectrum.data[n].w = last
                   /\ \A i \in 1..(n - 1) :
                          QSub(spectrum.data[i + 1].w, spectrum.data[i].w)
                              = QDiv(QSub(last, first), Q(n - 1))
            /\ \A i \in 1..n : \A ch \in 1..3 :
                   spectrum.data[i].v[ch]
                       = extrapolate(PixelDomain, ProfileChannel(ch),
                                     extrapolate(r, m, spectrum.data[i].w, NaN), NaN)

\* A spectrum asked at a resolution of 2 or more samples that is not the
\* width of the profile.
C11_Witness ==
    /\ Calibrated /\ ValidInput
    /\ spectrum.status = "ok"
    /\ Truthy(samples)
    /\ samples[1] >= 2
    /\ samples[1] # ProfileWidth
    /\ Len(spectrum.data) = samples[1]

\* C13: when the reference wavelengths of the calibration keys are strictly
\* increasing in measured-position order, the wavelength-to-pixel interpolant
\* maps each key's reference wavelength to that key's measured position, and
\* wherever a key's reference wavelength is a value of the output axis and its
\* measured position is an integer pixel p in 0..W-1, the entry of the
\* spectrum at that wavelength is the sample of the profile at pixel p in all
\* three channels.
C13_KeyWavelengthsReadKeyPixels ==
    LET r == reference_samples(reference, measured)
        m == measured_samples(reference, measured)
    IN  (/\ Calibrated
         /\ spectrum.status = "ok"
         /\ \A j \in 1..(Len(r) - 1) : QLt(r[j], r[j + 1])) =>
            \A j \in 1..Len(r) :
                /\ r_to_m_interpolator(r, m, r[j], NaN) = m[j]
                /\ \A i \in 1..Len(spectrum.data) :
                       (/\ spectrum.data[i].w = r[j]
                        /\ m[j].d = 1
                        /\ m[j].n \in 0..(ProfileWidth - 1)) =>
                           spectrum.data[i].v = profile.data[1][m[j].n + 1]

\* A profile that is not flat, and an entry of the spectrum at the wavelength
\* of a key measured at a pixel other than the first.
C13_Witness ==
    /\ Calibrated
    /\ spectrum.status = "ok"
    /\ profile.data[1][1] # profile.data[1][2]
    /\ LET r == reference_samples(reference, measured)
           m == measured_samples(reference, measured)
       IN  /\ \A j \in 1..(Len(r) - 1) : QLt(r[j], r[j + 1])
           /\ \E j \in 1..Len(r) : \E i \in 1..Len(spectrum.data) :
                  /\ spectrum.data[i].w = r[j]
                  /\ m[j].n \in 1..(ProfileWidth - 1)

====
